---- MODULE Spec2Model ----
(***************************************************************************)
(* Model of streamlit_app/app.py: the cached three-table loader, the       *)
(* derived investment metrics, the city / neighbourhood filter, the views  *)
(* and the CSV export of the real-estate dashboard.                        *)
(*                                                                         *)
(* Text is modelled as sequences of character codes, numbers as pandas     *)
(* holds them: int64 cells, and float64 values computed with IEEE-754      *)
(* round-to-nearest-even on 53-bit significands (exponent range is not     *)
(* modelled: no value of the model comes near overflow or underflow).      *)
(***************************************************************************)
EXTENDS Integers, Sequences, FiniteSets, TLC

(***************************************************************************)
(* Natural numbers of arbitrary size: little-endian sequences of limbs in  *)
(* base 2^15, without leading zero limbs (<<>> is zero).  They carry the   *)
(* significands of the float64 arithmetic below.                           *)
(***************************************************************************)
LimbBits == 15
LimbBase == 2 ^ LimbBits

Pow2(k) == 2 ^ k

Limb(a, i) == IF i <= Len(a) THEN a[i] ELSE 0

\* drop the leading zero limbs
BNorm(a) ==
    LET nz == {i \in 1..Len(a) : a[i] # 0}
    IN  IF nz = {} THEN <<>>
        ELSE SubSeq(a, 1, CHOOSE i \in nz : \A j \in nz : j <= i)

BFromInt(n) ==
    IF n = 0 THEN <<>>
    ELSE IF n < LimbBase THEN <<n>>
    ELSE IF n < LimbBase * LimbBase THEN <<n % LimbBase, n \div LimbBase>>
    ELSE <<n % LimbBase, (n \div LimbBase) % LimbBase, n \div (LimbBase * LimbBase)>>

MaxOf(x, y) == IF x >= y THEN x ELSE y
MinOf(x, y) == IF x <= y THEN x ELSE y

\* a + b: a carry enters limb i when some lower limb overflows and every limb
\* between the two is full
BAdd(a, b) ==
    LET n == MaxOf(Len(a), Len(b))
        sum(i) == Limb(a, i) + Limb(b, i)
        carry(i) == \E j \in 1..(i - 1) :
                       /\ sum(j) >= LimbBase
                       /\ \A k \in (j + 1)..(i - 1) : sum(k) = LimbBase - 1
    IN  BNorm([i \in 1..(n + 1) |-> (sum(i) + (IF carry(i) THEN 1 ELSE 0)) % LimbBase])

\* a - b for a >= b: limb i lends when some lower limb is short and every limb
\* between the two is level
BSub(a, b) ==
    LET borrow(i) == \E j \in 1..(i - 1) :
                        /\ Limb(a, j) < Limb(b, j)
                        /\ \A k \in (j + 1)..(i - 1) : Limb(a, k) = Limb(b, k)
    IN  BNorm([i \in 1..Len(a) |->
                 (a[i] - Limb(b, i) - (IF borrow(i) THEN 1 ELSE 0) + LimbBase) % LimbBase])

\* -1, 0, 1 as a < b, a = b, a > b: the highest limb that differs decides
BCmp(a, b) ==
    IF Len(a) < Len(b) THEN -1
    ELSE IF Len(a) > Len(b) THEN 1
    ELSE LET diff == {i \in 1..Len(a) : a[i] # b[i]}
         IN  IF diff = {} THEN 0
             ELSE LET hi == CHOOSE i \in diff : \A j \in diff : j <= i
                  IN  IF a[hi] < b[hi] THEN -1 ELSE 1

\* a * d for one limb d: the low halves of the limb products plus their high
\* halves one limb up
BMulSmall(a, d) ==
    IF d = 0 THEN <<>>
    ELSE BAdd(BNorm([i \in 1..Len(a) |-> (a[i] * d) % LimbBase]),
              BNorm([i \in 1..(Len(a) + 1) |->
                       IF i = 1 THEN 0 ELSE (a[i - 1] * d) \div LimbBase]))

ZeroLimbs(n) == [i \in 1..n |-> 0]

\* acc plus the products of a with the limbs j, j+1, ... of b, each partial
\* sum completed before the next limb is taken
RECURSIVE BMulAt(_, _, _, _)
BMulAt(a, b, j, acc) ==
    IF j > Len(b) THEN acc
    ELSE LET next == BAdd(acc, IF b[j] = 0 THEN <<>>
                               ELSE ZeroLimbs(j - 1) \o BMulSmall(a, b[j]))
         IN  <<next, BMulAt(a, b, j + 1, next)>>[2]

BMul(a, b) == IF a = <<>> \/ b = <<>> THEN <<>> ELSE BMulAt(a, b, 1, <<>>)

\* a * 2^k: each limb takes the low bits of one limb of a and the high bits
\* of the limb below it
BShl(a, k) ==
    LET q == k \div LimbBits
        r == k % LimbBits
    IN  IF a = <<>> THEN <<>>
        ELSE BNorm([i \in 1..(Len(a) + q + 1) |->
                      IF i <= q THEN 0
                      ELSE ((Limb(a, i - q) * Pow2(r)) % LimbBase)
                           + (IF i - q = 1 THEN 0
                              ELSE (a[i - q - 1] * Pow2(r)) \div LimbBase)])

\* a + bit for an even a
BAddBit(a, bit) ==
    IF bit = 0 THEN a
    ELSE IF a = <<>> THEN <<1>>
    ELSE [a EXCEPT ![1] = @ + 1]

\* floor(a / 2^k)
BShr(a, k) ==
    LET q == k \div LimbBits
        r == k % LimbBits
        n == Len(a) - q
    IN  IF n <= 0 THEN <<>>
        ELSE BNorm([i \in 1..n |->
                      (a[i + q] \div Pow2(r))
                      + (Limb(a, i + q + 1) % Pow2(r)) * Pow2(LimbBits - r)])

\* the number of bits of one limb
SmallBitLen(n) ==
    CHOOSE k \in 0..LimbBits : n < Pow2(k) /\ (k = 0 \/ n >= Pow2(k - 1))

BBitLen(a) ==
    IF a = <<>> THEN 0 ELSE LimbBits * (Len(a) - 1) + SmallBitLen(a[Len(a)])

\* bit i of a, bit 0 the lowest
BBit(a, i) == (Limb(a, (i \div LimbBits) + 1) \div Pow2(i % LimbBits)) % 2

BIsOdd(a) == a # <<>> /\ a[1] % 2 = 1

\* one step of the long division of x by d: bit i of x enters the remainder;
\* qr is the pair <<quotient, remainder>> over the bits consumed so far
BDivStep(x, d, i, qr) ==
    LET r2 == BAddBit(BShl(qr[2], 1), BBit(x, i))
        q2 == BShl(qr[1], 1)
    IN  IF BCmp(r2, d) >= 0 THEN <<BAddBit(q2, 1), BSub(r2, d)>>
        ELSE <<q2, r2>>

\* the steps for the bits hi, hi-1, ..., lo of x, in four runs of w bits one
\* after the other, each starting where the one before it ended
RECURSIVE BDivBits(_, _, _, _, _)
BDivBits(x, d, hi, lo, qr) ==
    CASE hi < lo -> qr
      [] hi = lo -> BDivStep(x, d, hi, qr)
      [] OTHER ->
           LET w  == (hi - lo + 4) \div 4
               c1 == BDivBits(x, d, hi, hi - w + 1, qr)
               c2 == BDivBits(x, d, hi - w, MaxOf(lo, hi - 2 * w + 1), c1)
               c3 == BDivBits(x, d, hi - 2 * w, MaxOf(lo, hi - 3 * w + 1), c2)
               c4 == BDivBits(x, d, hi - 3 * w, lo, c3)
           IN  <<c1, c2, c3, c4>>[4]

\* <<floor(x / d), x mod d>>: the bits of x above the length of d cannot
\* reach d, so they start the remainder
BDivMod(x, d) ==
    LET k == MaxOf(0, BBitLen(x) - BBitLen(d) + 1)
    IN  BDivBits(x, d, k - 1, 0, <<<<>>, BShr(x, k)>>)

\* the number of zero bits below the lowest one bit of a
BTrailingZeros(a) ==
    IF a = <<>> THEN 0
    ELSE LET j == CHOOSE i \in 1..Len(a) : a[i] # 0 /\ \A h \in 1..(i - 1) : a[h] = 0
             t == CHOOSE k \in 0..(LimbBits - 1) :
                    a[j] % Pow2(k + 1) # 0 /\ a[j] % Pow2(k) = 0
         IN  LimbBits * (j - 1) + t

(***************************************************************************)
(* Numbers as pandas / numpy hold them.  An int64 cell is I(n).  A float64 *)
(* is NaN, Inf(s) or a finite value (-1)^s * m * 2^e with m an odd natural  *)
(* of at most 53 bits (canonical, so equal values are equal records; zero  *)
(* is m = <<>>, e = 0, s = 0).  Every operation computes the exact result  *)
(* and rounds it once to 53 bits, ties to even, as IEEE-754 does.          *)
(***************************************************************************)
MantissaBits == 53

NaN == [k |-> "nan"]
Inf(s) == [k |-> "inf", s |-> s]
I(n) == [k |-> "i", v |-> n]
FZero == [k |-> "f", s |-> 0, m |-> <<>>, e |-> 0]

IsZero(x) == x.k = "f" /\ x.m = <<>>

Canon(s, n, e) ==
    IF n = <<>> THEN FZero
    ELSE LET tz == BTrailingZeros(n)
         IN  [k |-> "f", s |-> s, m |-> BShr(n, tz), e |-> e + tz]

\* (-1)^s * n * 2^e (plus a nonzero fraction below the last bit of n when
\* sticky) rounded to the nearest float64, ties to even
RoundF(s, n, e, sticky) ==
    LET len == BBitLen(n)
    IN  IF len <= MantissaBits THEN Canon(s, n, e)
        ELSE LET sh   == len - MantissaBits
                 q    == BShr(n, sh)
                 rem  == BSub(n, BShl(q, sh))
                 half == BShl(<<1>>, sh - 1)
                 c    == BCmp(rem, half)
                 up   == c > 0 \/ (c = 0 /\ (sticky \/ BIsOdd(q)))
             IN  Canon(s, IF up THEN BAdd(q, <<1>>) ELSE q, e + sh)

Abs(n) == IF n < 0 THEN -n ELSE n

\* int -> float64 (exact for the 32-bit integers of the model)
FromInt(n) == Canon(IF n < 0 THEN 1 ELSE 0, BFromInt(Abs(n)), 0)

\* the float64 of a cell: what numpy does when an int64 meets a float64, and
\* what Series.astype(float) does to an int64 column
ToFloat(x) == IF x.k = "i" THEN FromInt(x.v) ELSE x

Xor(a, b) == IF a = b THEN 0 ELSE 1

FNeg(x) ==
    IF x.k = "nan" THEN NaN
    ELSE IF x.k = "inf" THEN Inf(1 - x.s)
    ELSE IF x.m = <<>> THEN FZero
    ELSE [x EXCEPT !.s = 1 - x.s]

\* the finite case of each operation comes first; the special values follow
\* the IEEE-754 rules
FMul(x, y) ==
    IF x.k = "f" /\ y.k = "f"
    THEN RoundF(Xor(x.s, y.s), BMul(x.m, y.m), x.e + y.e, FALSE)
    ELSE IF x.k = "nan" \/ y.k = "nan" THEN NaN
    ELSE IF IsZero(x) \/ IsZero(y) THEN NaN
    ELSE Inf(Xor(x.s, y.s))

FDiv(x, y) ==
    IF x.k = "f" /\ y.k = "f" /\ x.m # <<>> /\ y.m # <<>>
    THEN LET sh == MaxOf(0, BBitLen(y.m) + MantissaBits + 3 - BBitLen(x.m))
             qr == BDivMod(BShl(x.m, sh), y.m)
         IN  RoundF(Xor(x.s, y.s), qr[1], x.e - y.e - sh, qr[2] # <<>>)
    ELSE IF x.k = "nan" \/ y.k = "nan" THEN NaN
    ELSE IF x.k = "inf" THEN IF y.k = "inf" THEN NaN ELSE Inf(Xor(x.s, y.s))
    ELSE IF y.k = "inf" THEN FZero
    ELSE IF y.m = <<>> THEN IF x.m = <<>> THEN NaN ELSE Inf(Xor(x.s, y.s))
    ELSE FZero

FAdd(x, y) ==
    IF x.k = "f" /\ y.k = "f"
    THEN LET e0 == MinOf(x.e, y.e)
             nx == BShl(x.m, x.e - e0)
             ny == BShl(y.m, y.e - e0)
             c  == BCmp(nx, ny)
         IN  IF x.s = y.s THEN RoundF(x.s, BAdd(nx, ny), e0, FALSE)
             ELSE IF c = 0 THEN FZero
             ELSE IF c > 0 THEN RoundF(x.s, BSub(nx, ny), e0, FALSE)
             ELSE RoundF(y.s, BSub(ny, nx), e0, FALSE)
    ELSE IF x.k = "nan" \/ y.k = "nan" THEN NaN
    ELSE IF x.k = "inf" THEN IF y.k = "inf" /\ y.s # x.s THEN NaN ELSE x
    ELSE y

FSub(x, y) == FAdd(x, FNeg(y))

FAbs(x) == IF x.k = "nan" THEN NaN ELSE IF x.k = "inf" THEN Inf(0)
           ELSE [x EXCEPT !.s = 0]

\* IEEE comparison: anything compared with NaN is false
FLe(x, y) ==
    /\ x.k # "nan" /\ y.k # "nan"
    /\ \/ x = y
       \/ (x.k = "inf" /\ x.s = 1)
       \/ (y.k = "inf" /\ y.s = 0)
       \/ /\ x.k = "f" /\ y.k = "f"
          /\ LET d == FSub(x, y) IN d.m = <<>> \/ d.s = 1

\* arithmetic on cells as numpy promotes them: int64 with int64 stays int64,
\* anything with a float64 is float64
NMul(x, y) == IF x.k = "i" /\ y.k = "i" THEN I(x.v * y.v)
              ELSE FMul(ToFloat(x), ToFloat(y))
NSub(x, y) == IF x.k = "i" /\ y.k = "i" THEN I(x.v - y.v)
              ELSE FSub(ToFloat(x), ToFloat(y))
NAdd(x, y) == IF x.k = "i" /\ y.k = "i" THEN I(x.v + y.v)
              ELSE FAdd(ToFloat(x), ToFloat(y))
\* true division always yields float64
NDiv(x, y) == FDiv(ToFloat(x), ToFloat(y))

(***************************************************************************)
(* Text: a str is a sequence of character codes, a text cell is S(codes)   *)
(* or NaN (pandas reads an empty field as NaN).                            *)
(***************************************************************************)
S(codes) == [k |-> "str", v |-> codes]

Valencia  == <<86, 97, 108, 101, 110, 99, 105, 97>>
Malaga    == <<77, 97, 108, 97, 103, 97>>
Madrid    == <<77, 97, 100, 114, 105, 100>>
Barcelona == <<66, 97, 114, 99, 101, 108, 111, 110, 97>>
valencia  == <<118, 97, 108, 101, 110, 99, 105, 97>>
MADRID    == <<77, 65, 68, 82, 73, 68>>
Russafa    == <<82, 117, 115, 115, 97, 102, 97>>
Benimaclet == <<66, 101, 110, 105, 109, 97, 99, 108, 101, 116>>
Salamanca  == <<83, 97, 108, 97, 109, 97, 110, 99, 97>>
Comma == 44
Wifi    == <<119, 105, 102, 105>>
WifiTv  == <<119, 105, 102, 105, 44, 116, 118>>

\* str.lower(): A-Z and the Latin-1 capitals move up by 32
LowerChar(c) ==
    IF (c >= 65 /\ c <= 90) \/ (c >= 192 /\ c <= 222 /\ c # 215) THEN c + 32 ELSE c

Lower(str) == [i \in 1..Len(str) |-> LowerChar(str[i])]

\* Series.str.lower(): element-wise, a missing value stays missing
StrLower(cell) == IF cell.k = "str" THEN S(Lower(cell.v)) ELSE NaN

\* Python's order on str: by code point, a proper prefix first
StrLess(a, b) ==
    LET n == IF Len(a) <= Len(b) THEN Len(a) ELSE Len(b)
        diff == {i \in 1..n : a[i] # b[i]}
    IN  IF diff = {} THEN Len(a) < Len(b)
        ELSE LET first == CHOOSE i \in diff : \A j \in diff : i <= j
             IN  a[first] < b[first]

\* str.count(sub) for a one-character sub
StrCount(str, c) == Cardinality({i \in 1..Len(str) : str[i] = c})

Range(f) == {f[i] : i \in DOMAIN f}

\* sorted(xs) for a set of str: each takes the place after those below it
Sorted(xs) ==
    [k \in 1..Cardinality(xs) |->
       CHOOSE x \in xs : Cardinality({y \in xs : StrLess(y, x)}) = k - 1]

(***************************************************************************)
(* Tables.  A DataFrame is its set of column names and its rows in order,  *)
(* each row a function from the column names to cells; NoneT is Python's   *)
(* None where a table was expected.                                        *)
(***************************************************************************)
NoneT == [isNone |-> TRUE, cols |-> {}, rows |-> <<>>]
DataFrame(cols, rows) == [isNone |-> FALSE, cols |-> cols, rows |-> rows]

\* df[column] as the sequence of its cells
Column(t, c) == [i \in 1..Len(t.rows) |-> t.rows[i][c]]

\* df[column] = values (one per row): adds the column or overwrites it
SetColumn(t, c, vals) ==
    DataFrame(t.cols \cup {c},
              [i \in 1..Len(t.rows) |->
                 [x \in t.cols \cup {c} |-> IF x = c THEN vals[i] ELSE t.rows[i][x]]])

\* df[mask]: the rows whose mask entry is True, in order
MaskRows(rows, mask) ==
    LET kept == {i \in 1..Len(rows) : mask[i]}
    IN  [k \in 1..Cardinality(kept) |->
           rows[CHOOSE i \in kept : Cardinality({j \in kept : j <= i}) = k]]

BoolIndex(t, mask) == DataFrame(t.cols, MaskRows(t.rows, mask))

\* an emptiness test that never fires
IsEmptyNever(t) == FALSE

\* DataFrame.empty
IsEmpty(t) == t.rows = <<>>

\* pd.read_csv's dtype inference on a parsed file: a numeric column with a
\* missing value is float64 throughout, one without stays int64
HasMissing(t, c) == \E i \in 1..Len(t.rows) : t.rows[i][c].k = "nan"
IsNumericColumn(t, c) == \A i \in 1..Len(t.rows) : t.rows[i][c].k \in {"i", "f", "nan", "inf"}

\* the columns pd.read_csv leaves as object dtype: those with a text cell, and
\* every column of a file without rows
ObjectColumns(t) == {c \in t.cols : IsEmpty(t) \/ ~IsNumericColumn(t, c)}

read_csv(file) ==
    DataFrame(file.cols,
              [i \in 1..Len(file.rows) |->
                 [c \in file.cols |->
                    IF IsNumericColumn(file, c) /\ HasMissing(file, c)
                    THEN ToFloat(file.rows[i][c])
                    ELSE file.rows[i][c]]])

(***************************************************************************)
(* The derived investment metrics of the preprocessing block.              *)
(***************************************************************************)
average_m2 == 70
gastos_anuales == 3000
fallback_precio_m2 == 2000

\* Series.astype(float)
AsTypeFloat(cells) == [i \in 1..Len(cells) |-> ToFloat(cells[i])]

\* the float64 sum of the first n cells, added in column order
RECURSIVE FSumTo(_, _)
FSumTo(cells, n) == IF n = 0 THEN FZero ELSE FAdd(FSumTo(cells, n - 1), cells[n])

FSum(cells) == FSumTo(cells, Len(cells))

DropNa(cells) == MaskRows(cells, [i \in 1..Len(cells) |-> cells[i].k # "nan"])

\* Series.mean(): the float64 sum of the non-missing cells over their count,
\* NaN when there is none
SeriesMean(cells) ==
    LET present == DropNa(AsTypeFloat(cells))
    IN  IF present = <<>> THEN NaN
        ELSE FDiv(FSum(present), FromInt(Len(present)))

\* lines 39-42 taking the fallback whatever the sale table holds
precio_m2_always_fallback(df_inm) == I(fallback_precio_m2)

\* lines 39-42
precio_m2_valencia(df_inm) ==
    IF "precio" \in df_inm.cols THEN SeriesMean(Column(df_inm, "precio"))
    ELSE I(fallback_precio_m2)

\* line 45: the scalar broadcast to every row
estimated_property_value(precio_m2) == NMul(precio_m2, I(average_m2))

\* line 44
annual_income(price, days_rented) == NMul(price, days_rented)
\* lines 46 and 49 without the percentage factor
roi_fraction(income, value) == NDiv(income, value)

\* lines 46 and 49
roi_pct(income, value) == FMul(NDiv(income, value), FromInt(100))
\* line 48 with the costs added instead of deducted
net_annual_income_added(income) == NAdd(income, I(gastos_anuales))

\* line 48
net_annual_income(income) == NSub(income, I(gastos_anuales))

\* the columns lines 44-49 add
MetricColumns ==
    {"annual_income", "estimated_property_value", "ROI (%)", "net_annual_income",
     "Net ROI (%)"}

\* lines 38 and 44-49 on a listing table that has the columns they read, given
\* the scalar of lines 39-42: the assignments are element-wise, so each row
\* takes its new cells from its own price and days_rented
ComputeMetrics(df0, precio_m2) ==
    LET epv == estimated_property_value(precio_m2)
        Row(r) ==
            LET price   == ToFloat(r["price"])
                income  == annual_income(price, r["days_rented"])
                net     == net_annual_income(income)
            IN  [c \in df0.cols \cup MetricColumns |->
                   CASE c = "price" -> price
                     [] c = "annual_income" -> income
                     [] c = "estimated_property_value" -> epv
                     [] c = "ROI (%)" -> roi_pct(income, epv)
                     [] c = "net_annual_income" -> net
                     [] c = "Net ROI (%)" -> roi_pct(net, epv)
                     [] OTHER -> r[c]]
    IN  DataFrame(df0.cols \cup MetricColumns,
                  [i \in 1..Len(df0.rows) |-> Row(df0.rows[i])])

\* the columns lines 37-49 index without a guard: a missing one raises KeyError
MetricInputs == {"price", "days_rented"}

(***************************************************************************)
(* The filter of lines 53-75.                                              *)
(***************************************************************************)
ciudades == <<Valencia, Malaga, Madrid, Barcelona>>

\* line 57 without the two lower() calls
CityMaskCaseSensitive(df0, ciudad) ==
    [i \in 1..Len(df0.rows) |-> df0.rows[i]["city"] = S(ciudad)]

\* line 57: df['city'].str.lower() == ciudad_seleccionada.lower(), row by row
\* (a missing city compares unequal to every str)
CityMask(df0, ciudad) ==
    [i \in 1..Len(df0.rows) |-> StrLower(df0.rows[i]["city"]) = S(Lower(ciudad))]

NarrowCity(df0, ciudad) == BoolIndex(df0, CityMask(df0, ciudad))

\* lines 61 and 70: sorted(t['neighbourhood'].dropna().unique())
BarrioUniverse(t) ==
    Sorted({t.rows[i]["neighbourhood"].v :
              i \in {j \in 1..Len(t.rows) : t.rows[j]["neighbourhood"].k = "str"}})

\* Series.isin(values) for a list of str
IsIn(cells, values) ==
    [i \in 1..Len(cells) |-> cells[i].k = "str" /\ cells[i].v \in values]

\* line 63 indexing the whole table instead of the city's rows
NarrowBarriosWrongTable(df0, df_ciudad0, selected) ==
    BoolIndex(df0, IsIn(Column(df0, "neighbourhood"), selected))

\* line 63 with the mask negated
NarrowBarriosComplement(df0, df_ciudad0, selected) ==
    BoolIndex(df_ciudad0,
              [i \in 1..Len(df_ciudad0.rows) |->
                 ~IsIn(Column(df_ciudad0, "neighbourhood"), selected)[i]])

\* line 63 losing the first kept row
NarrowBarriosSkipFirst(df0, df_ciudad0, selected) ==
    LET kept == BoolIndex(df_ciudad0, IsIn(Column(df_ciudad0, "neighbourhood"), selected))
    IN  DataFrame(kept.cols, IF kept.rows = <<>> THEN <<>> ELSE Tail(kept.rows))

\* line 63, given the whole table and the city-narrowed one
NarrowBarriosCity(df0, df_ciudad0, selected) ==
    BoolIndex(df_ciudad0, IsIn(Column(df_ciudad0, "neighbourhood"), selected))

\* line 72
NarrowBarriosAll(df0, selected) ==
    BoolIndex(df0, IsIn(Column(df0, "neighbourhood"), selected))

\* line 262: df['amenities'].str.count(',') + 1
n_amenities(cell) == IF cell.k = "str" THEN I(StrCount(cell.v, Comma) + 1) ELSE NaN

\* lines 214 and 261-262, with the dtype the new column gets
WithAmenityCount(df0) ==
    IF "amenities" \in df0.cols /\ ~IsEmpty(df0)
    THEN LET counts == [i \in 1..Len(df0.rows) |-> n_amenities(df0.rows[i]["amenities"])]
         IN  SetColumn(df0, "n_amenities",
                       IF \E i \in 1..Len(counts) : counts[i].k = "nan"
                       THEN AsTypeFloat(counts) ELSE counts)
    ELSE df0

(***************************************************************************)
(* Storage: the three files as parsed text, and the set of sources whose   *)
(* read raises.                                                            *)
(***************************************************************************)
Sources == {"listings", "sale", "crime"}

ListingColumns == {"id", "city", "neighbourhood", "price", "days_rented", "amenities"}

\* a listing row from <<city, neighbourhood, price, days_rented, amenities>>
ListingRow(i, r, cols) ==
    [c \in cols |->
       CASE c = "id" -> I(i)
         [] c = "city" -> r[1]
         [] c = "neighbourhood" -> r[2]
         [] c = "price" -> r[3]
         [] c = "days_rented" -> r[4]
         [] c = "amenities" -> r[5]]

ListingFile(cols, rs) ==
    DataFrame(cols, [i \in 1..Len(rs) |-> ListingRow(i, rs[i], cols)])

RowPool ==
    << <<S(Valencia), S(Russafa),    I(50), I(100), S(WifiTv)>>,
       <<S(valencia), S(Benimaclet), I(80), I(100), S(Wifi)>>,
       <<S(MADRID),   S(Russafa),    NaN,   I(365), NaN>>,
       <<S(Valencia), NaN,           I(80), I(200), S(Wifi)>> >>

ColumnSets == {ListingColumns, ListingColumns \ {"city"}, ListingColumns \ {"price"}}

MaxRows == 2

SeqsUpTo(n, pool) == UNION {[1..k -> Range(pool)] : k \in 0..n}

ListingFiles == {ListingFile(cols, rs) : cols \in ColumnSets, rs \in SeqsUpTo(MaxRows, RowPool)}

SaleFile(cols, rs) ==
    DataFrame(cols, [i \in 1..Len(rs) |->
                       [c \in cols |-> IF c = "neighbourhood" THEN rs[i][1] ELSE rs[i][2]]])

SaleFiles ==
    { SaleFile({"neighbourhood", "precio"},
               << <<S(Russafa), I(2000)>>, <<S(Benimaclet), I(3000)>>, <<S(Salamanca), NaN>> >>),
      SaleFile({"neighbourhood", "precio"},
               << <<S(Russafa), I(2000)>>, <<S(Benimaclet), I(3000)>>, <<S(Salamanca), I(2600)>> >>),
      SaleFile({"neighbourhood"}, << <<S(Russafa), NaN>> >>) }

\* columns Parametro, Anio, Denuncias stand for the file's "Parámetro", "Año",
\* "Denuncias"
Total  == <<84, 111, 116, 97, 108>>
Hurtos == <<72, 117, 114, 116, 111, 115>>
CrimeFile ==
    DataFrame({"Parametro", "Anio", "Denuncias"},
              << [Parametro |-> S(Total),  Anio |-> I(2020), Denuncias |-> I(100)],
                 [Parametro |-> S(Hurtos), Anio |-> I(2020), Denuncias |-> I(60)] >>)

\* the few files of the specification that exercises the loader and its cache
LoaderListingFiles ==
    { ListingFile(ListingColumns, <<RowPool[1], RowPool[2]>>),
      ListingFile(ListingColumns \ {"city"}, <<RowPool[3]>>) }

LoaderSaleFiles == { SaleFile({"neighbourhood", "precio"}, << <<S(Russafa), I(2500)>> >>) }

(***************************************************************************)
(* load_data and the cache st.cache_data(ttl=3600) wraps around it.        *)
(***************************************************************************)
ttl == 3600

NoneTriple == <<NoneT, NoneT, NoneT>>

\* lines 23-31 returning the tables read so far when a read fails
load_data_partial(fs, bad) ==
    [value |-> << IF "listings" \in bad THEN NoneT ELSE read_csv(fs.listings),
                  IF "sale" \in bad THEN NoneT ELSE read_csv(fs.sale),
                  IF "crime" \in bad THEN NoneT ELSE read_csv(fs.crime) >>,
     elements |-> IF bad = {} THEN <<>> ELSE <<"error", "traceback">>]

\* lines 23-31: the value returned and the elements written to the page
load_data(fs, bad) ==
    IF bad = {}
    THEN [value |-> <<read_csv(fs.listings), read_csv(fs.sale), read_csv(fs.crime)>>,
          elements |-> <<>>]
    ELSE [value |-> NoneTriple, elements |-> <<"error", "traceback">>]

EmptyCache == [filled |-> FALSE, at |-> 0, entry |-> [value |-> NoneTriple, elements |-> <<>>]]

\* the window closed one second late
CacheValidInclusive(c, t) == c.filled /\ t - c.at <= ttl

\* line 21: an entry answers calls until ttl seconds after it was stored
CacheValid(c, t) == c.filled /\ t - c.at < ttl

\* what the wrapper stores after running the body: whatever it returned, the
\* None triple of a failed load included (only a raised exception is not stored)
CacheStore(c, t, out) == [filled |-> TRUE, at |-> t, entry |-> out]

(***************************************************************************)
(* State.                                                                  *)
(***************************************************************************)
Sessions == {"s1", "s2"}

VARIABLES
    files,               \* storage: [listings, sale, crime], the parsed files
    unreadable,          \* the sources whose read raises now
    now,                 \* the clock, in seconds
    cache,               \* the process-wide entry of load_data
    pc,                  \* per session: where its script run stands
    df,                  \* per session: the script's variables ...
    df_inmobiliario,
    df_delincuencia,
    ciudad_seleccionada,
    df_ciudad,
    barrios,
    selected_barrios,
    assigned,            \* ... and which of the filter's variables this run has set
    dtypes,              \* per session: the columns of df that pandas holds as text
    ui,                  \* per session: the elements this run has written
    lastLoad,            \* per session: "hit" or "miss" for the run's load_data call
    page                 \* per session: what the finished page offers

scriptVars == <<df, df_inmobiliario, df_delincuencia, ciudad_seleccionada, df_ciudad,
                barrios, selected_barrios, assigned, dtypes>>
envVars == <<files, unreadable, now>>
vars == <<files, unreadable, now, cache, pc, df, df_inmobiliario, df_delincuencia,
          ciudad_seleccionada, df_ciudad, barrios, selected_barrios, assigned, dtypes,
          ui, lastLoad, page>>

NoPage == [csv |-> NoneT, ciudad |-> <<>>, barrios |-> {}]

\* the page a run leaves behind: the widgets it drew with their values, and
\* the table it offered for download, if it got that far
PageOf(csv, ciudad, selected) == [csv |-> csv, ciudad |-> ciudad, barrios |-> selected]

InitSessions ==
    /\ pc = [s \in Sessions |-> "start"]
    /\ df = [s \in Sessions |-> NoneT]
    /\ df_inmobiliario = [s \in Sessions |-> NoneT]
    /\ df_delincuencia = [s \in Sessions |-> NoneT]
    /\ ciudad_seleccionada = [s \in Sessions |-> <<>>]
    /\ df_ciudad = [s \in Sessions |-> NoneT]
    /\ barrios = [s \in Sessions |-> <<>>]
    /\ selected_barrios = [s \in Sessions |-> {}]
    /\ assigned = [s \in Sessions |-> {}]
    /\ dtypes = [s \in Sessions |-> {}]
    /\ ui = [s \in Sessions |-> <<>>]
    /\ lastLoad = [s \in Sessions |-> "none"]
    /\ page = [s \in Sessions |-> NoPage]

\* the loader and its cache under failing sources, changing files and time
Init ==
    /\ files \in [listings : LoaderListingFiles, sale : LoaderSaleFiles, crime : {CrimeFile}]
    /\ unreadable \in SUBSET Sources
    /\ now = 0
    /\ cache = EmptyCache
    /\ InitSessions

\* the metrics and the filter over every small listing and sale file
PipelineInit ==
    /\ files \in [listings : ListingFiles, sale : SaleFiles, crime : {CrimeFile}]
    /\ unreadable = {}
    /\ now = 0
    /\ cache = EmptyCache
    /\ InitSessions

(***************************************************************************)
(* One run of the script, top to bottom, for session s.                    *)
(***************************************************************************)
\* st.stop() after writing a warning: the run ends, the page keeps the widgets
\* drawn so far and offers no table
Halt(s, element, ciudad, selected) ==
    /\ pc' = [pc EXCEPT ![s] = "stopped"]
    /\ ui' = [ui EXCEPT ![s] = Append(@, element)]
    /\ page' = [page EXCEPT ![s] = PageOf(NoneT, ciudad, selected)]

\* line 33, as if the table of the previous run were kept across reruns and
\* picked up again instead of the loaded one
LoadDataKeepsTable(s) ==
    /\ pc[s] = "start"
    /\ LET hit == CacheValid(cache, now)
           out == IF hit THEN cache.entry ELSE load_data(files, unreadable)
       IN  /\ cache' = IF hit THEN cache ELSE CacheStore(cache, now, out)
           /\ lastLoad' = [lastLoad EXCEPT ![s] = IF hit THEN "hit" ELSE "miss"]
           /\ df' = [df EXCEPT ![s] = IF page[s].csv.isNone THEN out.value[1]
                                                             ELSE page[s].csv]
           /\ df_inmobiliario' = [df_inmobiliario EXCEPT ![s] = out.value[2]]
           /\ df_delincuencia' = [df_delincuencia EXCEPT ![s] = out.value[3]]
           /\ dtypes' = [dtypes EXCEPT ![s] = ObjectColumns(out.value[1])]
           /\ ui' = [ui EXCEPT ![s] = @ \o out.elements]
    /\ pc' = [pc EXCEPT ![s] = "loaded"]
    /\ UNCHANGED <<envVars, ciudad_seleccionada, df_ciudad, barrios, selected_barrios,
                   assigned, page>>

\* line 33: df, df_inmobiliario, df_delincuencia = load_data()
LoadData(s) ==
    /\ pc[s] = "start"
    /\ LET hit == CacheValid(cache, now)
           out == IF hit THEN cache.entry ELSE load_data(files, unreadable)
       IN  /\ cache' = IF hit THEN cache ELSE CacheStore(cache, now, out)
           /\ lastLoad' = [lastLoad EXCEPT ![s] = IF hit THEN "hit" ELSE "miss"]
           /\ df' = [df EXCEPT ![s] = out.value[1]]
           /\ df_inmobiliario' = [df_inmobiliario EXCEPT ![s] = out.value[2]]
           /\ df_delincuencia' = [df_delincuencia EXCEPT ![s] = out.value[3]]
           /\ dtypes' = [dtypes EXCEPT ![s] = ObjectColumns(out.value[1])]
           /\ ui' = [ui EXCEPT ![s] = @ \o out.elements]
    /\ pc' = [pc EXCEPT ![s] = "loaded"]
    /\ UNCHANGED <<envVars, ciudad_seleccionada, df_ciudad, barrios, selected_barrios,
                   assigned, page>>

\* lines 36-51 and 76-78, as if load_data handed out the cached object itself
\* rather than a copy: the column assignments land in the cache
PreprocessInPlace(s) ==
    /\ pc[s] = "loaded"
    /\ IF df[s].isNone \/ df_inmobiliario[s].isNone
       THEN /\ Halt(s, "warning: no hay datos disponibles", <<>>, {})
            /\ UNCHANGED <<df, cache>>
       ELSE IF ~(MetricInputs \subseteq df[s].cols)
       THEN /\ pc' = [pc EXCEPT ![s] = "crashed"]
            /\ ui' = [ui EXCEPT ![s] = Append(@, "exception")]
            /\ page' = [page EXCEPT ![s] = NoPage]
            /\ UNCHANGED <<df, cache>>
       ELSE /\ \E precio_m2 \in {precio_m2_valencia(df_inmobiliario[s])} :
                 \E out \in {ComputeMetrics(df[s], precio_m2)} :
                    /\ df' = [df EXCEPT ![s] = out]
                    /\ cache' = [cache EXCEPT !.entry.value[1] = out]
            /\ pc' = [pc EXCEPT ![s] = "city"]
            /\ ui' = [ui EXCEPT ![s] = Append(@, "sidebar: filtros")]
            /\ page' = page
    /\ UNCHANGED <<envVars, lastLoad, df_inmobiliario, df_delincuencia, dtypes,
                   ciudad_seleccionada, df_ciudad, barrios, selected_barrios, assigned>>

\* lines 36-51 and 76-78
Preprocess(s) ==
    /\ pc[s] = "loaded"
    /\ IF df[s].isNone \/ df_inmobiliario[s].isNone
       THEN /\ Halt(s, "warning: no hay datos disponibles", <<>>, {})
            /\ df' = df
       ELSE IF ~(MetricInputs \subseteq df[s].cols)
       THEN \* KeyError: the run dies with the exception on the page
            /\ pc' = [pc EXCEPT ![s] = "crashed"]
            /\ ui' = [ui EXCEPT ![s] = Append(@, "exception")]
            /\ page' = [page EXCEPT ![s] = NoPage]
            /\ df' = df
       ELSE /\ \E precio_m2 \in {precio_m2_valencia(df_inmobiliario[s])} :
                 df' = [df EXCEPT ![s] = ComputeMetrics(df[s], precio_m2)]
            /\ pc' = [pc EXCEPT ![s] = "city"]
            /\ ui' = [ui EXCEPT ![s] = Append(@, "sidebar: filtros")]
            /\ page' = page
    /\ UNCHANGED <<envVars, cache, lastLoad, df_inmobiliario, df_delincuencia, dtypes,
                   ciudad_seleccionada, df_ciudad, barrios, selected_barrios, assigned>>

\* lines 55-60: the city select box and the narrowing to that city
CityFilter(s) ==
    /\ pc[s] = "city"
    /\ "city" \in df[s].cols
    /\ \E c \in Range(ciudades) :
         LET narrowed == NarrowCity(df[s], c)
         IN  /\ ciudad_seleccionada' = [ciudad_seleccionada EXCEPT ![s] = c]
             /\ df_ciudad' = [df_ciudad EXCEPT ![s] = narrowed]
             /\ assigned' = [assigned EXCEPT ![s] = @ \cup {"ciudad_seleccionada", "df_ciudad"}]
             /\ IF IsEmpty(narrowed)
                THEN Halt(s, "warning: no hay datos para la ciudad", c, {})
                ELSE /\ pc' = [pc EXCEPT ![s] = "barrios"]
                     /\ UNCHANGED <<ui, page>>
    /\ UNCHANGED <<envVars, cache, lastLoad, df, df_inmobiliario, df_delincuencia, dtypes,
                   barrios, selected_barrios>>

\* lines 61-67: the neighbourhood multiselect over the city's rows
BarrioFilterCity(s) ==
    /\ pc[s] = "barrios"
    /\ LET universe == BarrioUniverse(df_ciudad[s])
       IN  \E sel \in SUBSET Range(universe) :
             LET narrowed == NarrowBarriosCity(df[s], df_ciudad[s], sel)
             IN  /\ barrios' = [barrios EXCEPT ![s] = universe]
                 /\ selected_barrios' = [selected_barrios EXCEPT ![s] = sel]
                 /\ df_ciudad' = [df_ciudad EXCEPT ![s] = narrowed]
                 /\ assigned' = [assigned EXCEPT ![s] = @ \cup {"barrios", "selected_barrios"}]
                 /\ IF IsEmpty(narrowed)
                    THEN /\ Halt(s, "warning: no hay datos para los barrios en la ciudad",
                                 ciudad_seleccionada[s], sel)
                         /\ df' = df
                    ELSE /\ df' = [df EXCEPT ![s] = narrowed]
                         /\ pc' = [pc EXCEPT ![s] = "views"]
                         /\ UNCHANGED <<ui, page>>
    /\ UNCHANGED <<envVars, cache, lastLoad, df_inmobiliario, df_delincuencia, dtypes,
                   ciudad_seleccionada>>

\* lines 68-75: no city column, the multiselect over all rows
BarrioFilterAll(s) ==
    /\ pc[s] = "city"
    /\ "city" \notin df[s].cols
    /\ LET universe == BarrioUniverse(df[s])
       IN  \E sel \in SUBSET Range(universe) :
             LET narrowed == NarrowBarriosAll(df[s], sel)
             IN  /\ barrios' = [barrios EXCEPT ![s] = universe]
                 /\ selected_barrios' = [selected_barrios EXCEPT ![s] = sel]
                 /\ assigned' = [assigned EXCEPT ![s] = @ \cup {"barrios", "selected_barrios"}]
                 /\ df' = [df EXCEPT ![s] = narrowed]
                 /\ IF IsEmpty(narrowed)
                    THEN /\ pc' = [pc EXCEPT ![s] = "stopped"]
                         /\ ui' = [ui EXCEPT ![s] =
                                     @ \o <<"sidebar warning: sin columna city",
                                            "warning: no hay datos para los barrios">>]
                         /\ page' = [page EXCEPT ![s] = PageOf(NoneT, <<>>, sel)]
                    ELSE /\ pc' = [pc EXCEPT ![s] = "views"]
                         /\ ui' = [ui EXCEPT ![s] =
                                     Append(@, "sidebar warning: sin columna city")]
                         /\ page' = page
    /\ UNCHANGED <<envVars, cache, lastLoad, df_inmobiliario, df_delincuencia, dtypes,
                   ciudad_seleccionada, df_ciudad>>

\* lines 80-548: the six tabs; the fifth adds the n_amenities column to df,
\* which since line 67 is the same table object as df_ciudad
Views(s) ==
    /\ pc[s] = "views"
    /\ IF ~IsEmpty(df[s]) /\ "amenities" \in df[s].cols \ dtypes[s]
       THEN \* AttributeError: .str on a column without text; the run dies in the
            \* fifth tab, with the tabs drawn and before the table is offered
            /\ pc' = [pc EXCEPT ![s] = "crashed"]
            /\ ui' = [ui EXCEPT ![s] = @ \o <<"tabs", "exception">>]
            /\ page' = [page EXCEPT ![s] =
                          PageOf(NoneT, ciudad_seleccionada[s], selected_barrios[s])]
            /\ UNCHANGED <<df, df_ciudad>>
       ELSE /\ \E out \in {WithAmenityCount(df[s])} :
                 /\ df' = [df EXCEPT ![s] = out]
                 /\ df_ciudad' = IF "df_ciudad" \in assigned[s]
                                 THEN [df_ciudad EXCEPT ![s] = out]
                                 ELSE df_ciudad
            /\ ui' = [ui EXCEPT ![s] = Append(@, "tabs")]
            /\ pc' = [pc EXCEPT ![s] = "export"]
            /\ page' = page
    /\ UNCHANGED <<envVars, cache, lastLoad, df_inmobiliario, df_delincuencia, dtypes,
                   ciudad_seleccionada, barrios, selected_barrios, assigned>>

\* lines 550-569: the table and its download, and the end of the run
Export(s) ==
    /\ pc[s] = "export"
    /\ IF ~IsEmpty(df[s])
       THEN /\ ui' = [ui EXCEPT ![s] = @ \o <<"dataframe", "download">>]
            /\ page' = [page EXCEPT ![s] =
                          PageOf(df[s], ciudad_seleccionada[s], selected_barrios[s])]
       ELSE /\ ui' = [ui EXCEPT ![s] = Append(@, "info: no hay datos para mostrar")]
            /\ page' = [page EXCEPT ![s] =
                          PageOf(NoneT, ciudad_seleccionada[s], selected_barrios[s])]
    /\ pc' = [pc EXCEPT ![s] = "done"]
    /\ UNCHANGED <<envVars, cache, lastLoad, scriptVars>>

\* a widget change or a reload: the script runs again from the top with
\* fresh variables; the page stays as it is until the new run ends
Rerun(s) ==
    /\ pc[s] \in {"done", "stopped", "crashed"}
    /\ pc' = [pc EXCEPT ![s] = "start"]
    /\ df' = [df EXCEPT ![s] = NoneT]
    /\ df_inmobiliario' = [df_inmobiliario EXCEPT ![s] = NoneT]
    /\ df_delincuencia' = [df_delincuencia EXCEPT ![s] = NoneT]
    /\ ciudad_seleccionada' = [ciudad_seleccionada EXCEPT ![s] = <<>>]
    /\ df_ciudad' = [df_ciudad EXCEPT ![s] = NoneT]
    /\ barrios' = [barrios EXCEPT ![s] = <<>>]
    /\ selected_barrios' = [selected_barrios EXCEPT ![s] = {}]
    /\ assigned' = [assigned EXCEPT ![s] = {}]
    /\ dtypes' = [dtypes EXCEPT ![s] = {}]
    /\ ui' = [ui EXCEPT ![s] = <<>>]
    /\ lastLoad' = [lastLoad EXCEPT ![s] = "none"]
    /\ UNCHANGED <<envVars, cache, page>>

Run(s) ==
    \/ LoadData(s)
    \/ Preprocess(s)
    \/ CityFilter(s)
    \/ BarrioFilterCity(s)
    \/ BarrioFilterAll(s)
    \/ Views(s)
    \/ Export(s)
    \/ Rerun(s)

(***************************************************************************)
(* The environment: time passes, sources break and recover, files change.  *)
(***************************************************************************)
TickStep == 1800
MaxTime == 5400

Tick ==
    /\ now + TickStep <= MaxTime
    /\ now' = now + TickStep
    /\ UNCHANGED <<files, unreadable, cache, pc, scriptVars, ui, lastLoad, page>>

Break(src) ==
    /\ src \notin unreadable
    /\ unreadable' = unreadable \cup {src}
    /\ UNCHANGED <<files, now, cache, pc, scriptVars, ui, lastLoad, page>>

Repair(src) ==
    /\ src \in unreadable
    /\ unreadable' = unreadable \ {src}
    /\ UNCHANGED <<files, now, cache, pc, scriptVars, ui, lastLoad, page>>

Overwrite ==
    /\ \E f \in LoaderListingFiles \ {files.listings} :
         files' = [files EXCEPT !.listings = f]
    /\ UNCHANGED <<unreadable, now, cache, pc, scriptVars, ui, lastLoad, page>>

Next ==
    \/ Run("s1")
    \/ Tick
    \/ \E src \in Sources : Break(src)
    \/ \E src \in Sources : Repair(src)
    \/ Overwrite

Spec == Init /\ [][Next]_vars

PipelineNext == Run("s1")

PipelineSpec == PipelineInit /\ [][PipelineNext]_vars

\* two browser sessions over one process, inside one validity window of the
\* cache: their runs interleave step by step and share nothing but the cache
\* of load_data
SharedInit ==
    /\ files \in [listings : LoaderListingFiles, sale : LoaderSaleFiles, crime : {CrimeFile}]
    /\ unreadable = {}
    /\ now = 0
    /\ cache = EmptyCache
    /\ InitSessions

SharedNext ==
    \/ Run("s1")
    \/ Run("s2")

SharedSpec == SharedInit /\ [][SharedNext]_vars

(***************************************************************************)
(* Properties.                                                             *)
(***************************************************************************)
AllNone(s) == df[s].isNone /\ df_inmobiliario[s].isNone /\ df_delincuencia[s].isNone
AllAvailable(s) == ~df[s].isNone /\ ~df_inmobiliario[s].isNone /\ ~df_delincuencia[s].isNone
PastLoad == {"city", "barrios", "views", "export", "done"}
Wrote(s, element) == \E i \in 1..Len(ui[s]) : ui[s][i] = element

\* C1: the load is all-or-nothing.  A load_data call that reads storage while
\* some source is unreadable returns None for all three tables; a run whose
\* load returned None stops right after it, having computed no metric, no
\* filter, no view and no export; and a run that is past the load holds all
\* three tables.
C1_LoadAllOrNothing ==
    [][\A s \in Sessions :
         /\ (pc[s] = "start" /\ pc'[s] = "loaded" /\ lastLoad'[s] = "miss" /\ unreadable # {})
               => (AllNone(s))'
         /\ (pc'[s] # "start") => (AllNone(s) \/ AllAvailable(s))'
         /\ (pc'[s] # "start" /\ (AllNone(s))')
               => /\ pc'[s] \in {"loaded", "stopped"}
                  /\ assigned'[s] = {}
                  /\ ~(Wrote(s, "tabs"))' /\ ~(Wrote(s, "download"))'
                  /\ pc'[s] = "stopped" => page'[s].csv = NoneT
         /\ (pc'[s] \in PastLoad) => (AllAvailable(s))'
      ]_vars

\* a run stopped after a load that read storage with only the crime file
\* unreadable: all three tables are None and nothing was computed
C1_Witness ==
    \E s \in Sessions :
        /\ pc[s] = "stopped" /\ lastLoad[s] = "miss" /\ unreadable = {"crime"}
        /\ AllNone(s)
        /\ Wrote(s, "error") /\ Wrote(s, "warning: no hay datos disponibles")

\* C2: loader failures are never cached: the cache never holds the outcome of
\* a failed load, and a load that returns the failed outcome has read storage.
C2_FailuresNeverCached ==
    /\ cache.filled => cache.entry.value # NoneTriple
    /\ \A s \in Sessions : (pc[s] = "loaded" /\ AllNone(s)) => lastLoad[s] = "miss"

\* C3: a load_data call made less than 3600 seconds after the computation that
\* filled the cache returns the cached tables, reads nothing and leaves the
\* cache alone; a call made with an empty cache or 3600 seconds or more after
\* that computation reads storage, returns what it read and stores it with the
\* time of the call.
C3_CacheWindow ==
    [][\A s \in Sessions :
         (pc[s] = "start" /\ pc'[s] = "loaded") =>
            LET got == <<df'[s], df_inmobiliario'[s], df_delincuencia'[s]>>
            IN  IF cache.filled /\ now - cache.at < 3600
                THEN /\ lastLoad'[s] = "hit"
                     /\ cache' = cache
                     /\ got = cache.entry.value
                ELSE /\ lastLoad'[s] = "miss"
                     /\ cache'.filled /\ cache'.at = now
                     /\ got = cache'.entry.value
                     /\ got = IF unreadable = {}
                              THEN <<read_csv(files.listings), read_csv(files.sale),
                                     read_csv(files.crime)>>
                              ELSE NoneTriple
      ]_vars

\* a load that re-read storage 3600 seconds or more into the session, after an
\* earlier run of the session had loaded and exported a table
C3_Witness ==
    \E s \in Sessions :
        /\ pc[s] = "loaded" /\ lastLoad[s] = "miss"
        /\ page[s].csv # NoneT
        /\ cache.at >= 3600 /\ cache.at = now
        /\ AllAvailable(s)

NoMatchWarnings ==
    {"warning: no hay datos para la ciudad",
     "warning: no hay datos para los barrios en la ciudad",
     "warning: no hay datos para los barrios"}

HaltedOnNoMatch(s) ==
    /\ pc[s] = "stopped"
    /\ ui[s] # <<>> /\ ui[s][Len(ui[s])] \in NoMatchWarnings
    /\ ~Wrote(s, "tabs") /\ ~Wrote(s, "download") /\ ~Wrote(s, "dataframe")
    /\ page[s].csv = NoneT

\* C4: a narrowing step that leaves zero rows ends the run with a NoMatchingData
\* warning, with and without a city column; the views and the export only ever
\* see a table with rows.
C4_EmptySelectionHalts ==
    \A s \in Sessions :
        /\ ("df_ciudad" \in assigned[s] /\ Len(df_ciudad[s].rows) = 0) => HaltedOnNoMatch(s)
        /\ (~df[s].isNone /\ "city" \notin df[s].cols /\ "selected_barrios" \in assigned[s]
              /\ Len(df[s].rows) = 0) => HaltedOnNoMatch(s)
        /\ (pc[s] \in {"views", "export", "done"} \/ Wrote(s, "tabs") \/ Wrote(s, "download"))
              => Len(df[s].rows) > 0
        /\ page[s].csv # NoneT => Len(page[s].csv.rows) > 0

\* a city with rows whose neighbourhood selection kept none of them
C4_Witness ==
    \E s \in Sessions :
        /\ pc[s] = "stopped"
        /\ "selected_barrios" \in assigned[s] /\ "df_ciudad" \in assigned[s]
        /\ Len(df_ciudad[s].rows) = 0 /\ Len(df[s].rows) > 0
        /\ Wrote(s, "warning: no hay datos para los barrios en la ciudad")

\* two str equal up to the case of their ASCII letters
SameLetter(a, b) ==
    \/ a = b
    \/ (a >= 65 /\ a <= 90 /\ b = a + 32)
    \/ (b >= 65 /\ b <= 90 /\ a = b + 32)

SameIgnoringCase(a, b) ==
    Len(a) = Len(b) /\ \A i \in 1..Len(a) : SameLetter(a[i], b[i])

RowHasCity(r, ciudad) == r["city"].k = "str" /\ SameIgnoringCase(r["city"].v, ciudad)

\* C5: the city narrowing keeps exactly the rows whose city equals the selected
\* one up to letter case; when no row does, the run has stopped with the city
\* warning and has neither computed the neighbourhood universe nor read a
\* neighbourhood selection.
C5_CityMatchAndEarlyHalt ==
    \A s \in Sessions :
        ("df_ciudad" \in assigned[s] /\ "barrios" \notin assigned[s]) =>
            /\ df_ciudad[s].rows =
                 SelectSeq(df[s].rows, LAMBDA r : RowHasCity(r, ciudad_seleccionada[s]))
            /\ (\A i \in 1..Len(df[s].rows) : ~RowHasCity(df[s].rows[i], ciudad_seleccionada[s]))
                 => /\ pc[s] = "stopped"
                    /\ Wrote(s, "warning: no hay datos para la ciudad")
                    /\ barrios[s] = <<>> /\ selected_barrios[s] = {}
                    /\ "selected_barrios" \notin assigned[s]
            /\ (\E i \in 1..Len(df[s].rows) : RowHasCity(df[s].rows[i], ciudad_seleccionada[s]))
                 => pc[s] = "barrios"

\* Madrid selected over listings none of which is in Madrid
C5_Witness ==
    \E s \in Sessions :
        /\ pc[s] = "stopped" /\ ciudad_seleccionada[s] = Madrid
        /\ Len(df[s].rows) > 0 /\ Len(df_ciudad[s].rows) = 0
        /\ "df_ciudad" \in assigned[s] /\ "barrios" \notin assigned[s]

\* a is b with some rows left out, the others in their order
RECURSIVE IsSubsequence(_, _)
IsSubsequence(a, b) ==
    IF a = <<>> THEN TRUE
    ELSE IF b = <<>> THEN FALSE
    ELSE IF a[1] = b[1] THEN IsSubsequence(Tail(a), Tail(b))
    ELSE IsSubsequence(a, Tail(b))

\* C6: within one run the working set only shrinks: the city-narrowed rows are
\* rows of the input, the neighbourhood-narrowed rows are rows of the
\* city-narrowed table (of the input when there is no city column), and the
\* output has at most as many rows as the input.
C6_MonotoneWithinRun ==
    [][\A s \in Sessions :
         /\ (pc[s] = "city" /\ "df_ciudad" \in assigned'[s])
               => IsSubsequence(df_ciudad'[s].rows, df[s].rows)
         /\ (pc[s] = "barrios" /\ pc'[s] # "barrios")
               => /\ IsSubsequence(df_ciudad'[s].rows, df_ciudad[s].rows)
                  /\ pc'[s] = "views"
                       => /\ IsSubsequence(df'[s].rows, df_ciudad[s].rows)
                          /\ Len(df'[s].rows) <= Len(df[s].rows)
         /\ (pc[s] = "city" /\ "selected_barrios" \in assigned'[s])
               => IsSubsequence(df'[s].rows, df[s].rows)
      ]_vars

\* a run past both narrowing steps with fewer rows than it loaded
C6_Witness ==
    \E s \in Sessions :
        /\ pc[s] = "views" /\ "df_ciudad" \in assigned[s]
        /\ Len(df[s].rows) < Len(cache.entry.value[1].rows)
        /\ Len(df[s].rows) > 0

Ids(t) == {t.rows[i]["id"] : i \in 1..Len(t.rows)}

\* C7 as claimed: across interactions the exported set is never re-expanded:
\* every rendered table holds only rows of the table rendered before it.
C7_NeverReExpanded ==
    [][\A s \in Sessions :
         (page[s].csv # NoneT /\ page'[s].csv # NoneT /\ page'[s] # page[s])
            => Ids(page'[s].csv) \subseteq Ids(page[s].csv)
      ]_vars

\* C7 amended: an interaction that keeps the city and selects a subset of the
\* previous neighbourhoods (over the same cached raw tables) renders only rows
\* of the table rendered before it.
C7_ShrinksWithSelection ==
    [][\A s \in Sessions :
         (/\ page[s].csv # NoneT /\ page'[s].csv # NoneT /\ page'[s] # page[s]
          /\ page'[s].ciudad = page[s].ciudad
          /\ page'[s].barrios \subseteq page[s].barrios)
            => Ids(page'[s].csv) \subseteq Ids(page[s].csv)
      ]_vars

\* a second interaction, same city and fewer neighbourhoods, about to export
\* fewer rows than the page still shows
C7_Witness ==
    \E s \in Sessions :
        /\ pc[s] = "export" /\ page[s].csv # NoneT
        /\ ciudad_seleccionada[s] = page[s].ciudad
        /\ selected_barrios[s] \subseteq page[s].barrios
        /\ selected_barrios[s] # page[s].barrios
        /\ Len(df[s].rows) < Len(page[s].csv.rows)

\* the filter of lines 55-75 as one function of a table and a selection
Refilter(t, ciudad, selected) ==
    IF "city" \in t.cols
    THEN NarrowBarriosCity(t, NarrowCity(t, ciudad), selected)
    ELSE NarrowBarriosAll(t, selected)

\* C8: filtering is idempotent: the filter applied with the run's own city and
\* neighbourhood selection to the table the run's filter produced returns that
\* table.
C8_FilterIdempotent ==
    \A s \in Sessions :
        /\ pc[s] \in {"views", "export", "done"}
              => Refilter(df[s], ciudad_seleccionada[s], selected_barrios[s]) = df[s]
        /\ (pc[s] = "stopped" /\ "selected_barrios" \in assigned[s] /\ "df_ciudad" \in assigned[s])
              => Refilter(df_ciudad[s], ciudad_seleccionada[s], selected_barrios[s])
                   = df_ciudad[s]

\* a filter that removed rows and kept some
C8_Witness ==
    \E s \in Sessions :
        /\ pc[s] = "views"
        /\ Len(df[s].rows) >= 1
        /\ Len(df[s].rows) < Len(cache.entry.value[1].rows)

\* equal as numbers, an int64 and a float64 alike; NaN only with NaN
SameNumber(x, y) ==
    IF x.k = "nan" \/ y.k = "nan" THEN x.k = y.k ELSE ToFloat(x) = ToFloat(y)

ExpectedValue(df_inm) ==
    IF "precio" \in df_inm.cols
    THEN FMul(SeriesMean(Column(df_inm, "precio")), FromInt(70))
    ELSE FromInt(140000)

\* C9: estimated_property_value is one scalar on every row, whatever the row
\* and the selection: the mean of the sale table's precio times 70, or
\* 2000 x 70 when the sale table has no precio column, in which case the run
\* still computes its metrics.
C9_EstimatedValueScalar ==
    \A s \in Sessions :
        /\ pc[s] \in PastLoad =>
             \A expected \in {ExpectedValue(df_inmobiliario[s])} :
                 /\ \A i \in 1..Len(df[s].rows) :
                       SameNumber(df[s].rows[i]["estimated_property_value"], expected)
                 /\ "df_ciudad" \in assigned[s] =>
                       \A i \in 1..Len(df_ciudad[s].rows) :
                          SameNumber(df_ciudad[s].rows[i]["estimated_property_value"], expected)
        /\ (pc[s] = "crashed" /\ ~df_inmobiliario[s].isNone
              /\ ~Wrote(s, "sidebar: filtros"))
              => ~({"price", "days_rented"} \subseteq df[s].cols)

\* two rows valued from the mean of a sale table with several prices
C9_Witness ==
    \E s \in Sessions :
        /\ pc[s] = "views" /\ Len(df[s].rows) = 2
        /\ "precio" \in df_inmobiliario[s].cols
        /\ Len(df_inmobiliario[s].rows) = 3
        /\ df[s].rows[1]["price"] # df[s].rows[2]["price"]

CostShare(r) ==
    FMul(FDiv(FromInt(3000), ToFloat(r["estimated_property_value"])), FromInt(100))

AllFinite(r, cost) ==
    /\ r["ROI (%)"].k = "f" /\ r["Net ROI (%)"].k = "f"
    /\ ToFloat(r["estimated_property_value"]).k = "f"
    /\ cost.k = "f"

\* C10 as claimed: on every row net ROI equals gross ROI minus
\* 3000 / estimated_property_value x 100.
C10_NetRoiIdentityExact ==
    \A s \in Sessions :
        pc[s] = "city" =>
            \A i \in 1..Len(df[s].rows) :
                LET r == df[s].rows[i]
                IN  \A cost \in {CostShare(r)} :
                        AllFinite(r, cost) => r["Net ROI (%)"] = FSub(r["ROI (%)"], cost)

TwoToMinus50 == [k |-> "f", s |-> 0, m |-> <<1>>, e |-> -50]

\* C10 amended: on every row with finite values net ROI equals gross ROI minus
\* 3000 / estimated_property_value x 100 up to float64 rounding: the two differ
\* by at most 2^-50 times the sum of the magnitudes of the two terms.
C10_NetRoiIdentityRounded ==
    \A s \in Sessions :
        pc[s] = "city" =>
            \A i \in 1..Len(df[s].rows) :
                LET r == df[s].rows[i]
                IN  \A cost \in {CostShare(r)} :
                    \A gap \in {FAbs(FSub(r["Net ROI (%)"], FSub(r["ROI (%)"], cost)))} :
                    \A scale \in {FAdd(FAbs(r["ROI (%)"]), FAbs(cost))} :
                        AllFinite(r, cost) => FLe(gap, FMul(TwoToMinus50, scale))

\* a row whose two sides differ in the last bit
C10_Witness ==
    \E s \in Sessions :
        /\ pc[s] = "city"
        /\ \E i \in 1..Len(df[s].rows) :
              LET r == df[s].rows[i]
              IN  \E cost \in {CostShare(r)} :
                      /\ AllFinite(r, cost)
                      /\ r["Net ROI (%)"] # FSub(r["ROI (%)"], cost)

\* the cells of row r that lines 38 and 44-49 do not assign
SameInputs(r, r0, cols) == \A c \in cols \ {"price"} : r[c] = r0[c]

Present(x) == x.k # "nan"

\* the five derived fields of row r, from the row r0 as loaded and the
\* reference price-per-m2 times 70, by the formulas of the data model
RowByFormulas(r, r0, value) ==
    \A income \in {FMul(ToFloat(r0["price"]), ToFloat(r0["days_rented"]))} :
    \A net \in {FSub(income, FromInt(3000))} :
        /\ SameNumber(r["annual_income"], income)
        /\ SameNumber(r["estimated_property_value"], value)
        /\ SameNumber(r["ROI (%)"], FMul(FDiv(income, value), FromInt(100)))
        /\ SameNumber(r["net_annual_income"], net)
        /\ SameNumber(r["Net ROI (%)"], FMul(FDiv(net, value), FromInt(100)))

\* C11: the metrics step neither drops nor adds a listing row, leaves the
\* loaded cells as they were, and gives every row the five derived fields by
\* the formulas (missing only where the row's price or days_rented is); a row
\* with price 50 and days_rented 100 under a mean precio of 2500 gets
\* estimated_property_value 175000, annual_income 5000, net_annual_income 2000.
C11_MetricsPerRow ==
    [][\A s \in Sessions :
         (pc[s] = "loaded" /\ pc'[s] = "city") =>
            \A value \in {ExpectedValue(df_inmobiliario[s])} :
              /\ Len(df'[s].rows) = Len(df[s].rows)
              /\ df'[s].cols = df[s].cols \cup {"annual_income", "estimated_property_value",
                                                 "ROI (%)", "net_annual_income", "Net ROI (%)"}
              /\ \A i \in 1..Len(df[s].rows) :
                    LET r0 == df[s].rows[i]
                        r  == df'[s].rows[i]
                    IN  /\ DOMAIN r = df'[s].cols
                        /\ SameInputs(r, r0, df[s].cols)
                        /\ SameNumber(r["price"], r0["price"])
                        /\ RowByFormulas(r, r0, value)
                        /\ (Present(r0["price"]) /\ Present(r0["days_rented"]) /\ Present(value))
                              => \A c \in {"annual_income", "estimated_property_value",
                                            "ROI (%)", "net_annual_income", "Net ROI (%)"} :
                                    r[c].k \in {"i", "f"}
                        /\ (r0["price"] = I(50) /\ r0["days_rented"] = I(100)
                              /\ value = FromInt(175000))
                              => /\ r["estimated_property_value"] = FromInt(175000)
                                 /\ r["annual_income"] = FromInt(5000)
                                 /\ r["net_annual_income"] = FromInt(2000)
      ]_vars

\* the scenario's row after the metrics step, next to a second row
C11_Witness ==
    \E s \in Sessions :
        /\ pc[s] = "city" /\ Len(df[s].rows) = 2
        /\ df[s].rows[1]["price"] = FromInt(50)
        /\ df[s].rows[1]["days_rented"] = I(100)
        /\ df[s].rows[1]["estimated_property_value"] = FromInt(175000)
        /\ df[s].rows[1]["annual_income"] = FromInt(5000)
        /\ df[s].rows[1]["net_annual_income"] = FromInt(2000)

\* C12: the views change none of the run's three tables: the table handed to
\* the export has exactly the rows and columns it had when the filter ended.
C12_ViewsLeaveTablesAlone ==
    [][\A s \in Sessions :
         (pc[s] = "views" /\ pc'[s] = "export") =>
            /\ df'[s].cols = df[s].cols
            /\ df'[s].rows = df[s].rows
            /\ df_inmobiliario'[s] = df_inmobiliario[s]
            /\ df_delincuencia'[s] = df_delincuencia[s]
      ]_vars

\* what storage holds, as load_data reads it
RawTables == load_data(files, unreadable).value

\* C13: sessions share only the cached raw snapshot.  No step of a run other
\* than a load that reads storage changes the cache, and every load, by any
\* session under any interleaving, hands its run the three raw tables exactly
\* as read from storage.
C13_SessionsShareOnlyRawCache ==
    [][/\ cache' # cache =>
            \E s \in Sessions :
                pc[s] = "start" /\ pc'[s] = "loaded" /\ ~CacheValid(cache, now)
       /\ cache'.filled => cache'.entry.value = RawTables
       /\ \A s \in Sessions :
            (pc[s] = "start" /\ pc'[s] = "loaded") =>
                <<df'[s], df_inmobiliario'[s], df_delincuencia'[s]>> = RawTables
      ]_vars

\* one session has derived and filtered its table, and the other then loads
\* from the cache inside the same window
C13_Witness ==
    /\ pc["s1"] = "views" /\ "annual_income" \in df["s1"].cols
    /\ Len(df["s1"].rows) = 1
    /\ pc["s2"] = "loaded" /\ lastLoad["s2"] = "hit"
    /\ Len(df["s2"].rows) = 2 /\ "annual_income" \notin df["s2"].cols

\* row r is one the selection asks for
Matches(r, cols, ciudad, selected) ==
    /\ "city" \in cols => RowHasCity(r, ciudad)
    /\ r["neighbourhood"].k = "str" /\ r["neighbourhood"].v \in selected

\* the rows of the cached raw listing table that the selection asks for
RowsFor(ciudad, selected) ==
    LET raw == cache.entry.value[1]
    IN  SelectSeq(raw.rows, LAMBDA r : Matches(r, raw.cols, ciudad, selected))

\* the rows of table t are the raw rows out, in their order, cell by cell
\* (the price as a number: the metrics step has made it a float)
ShowsRows(t, out) ==
    /\ Len(t.rows) = Len(out)
    /\ \A i \in 1..Len(out) :
          /\ SameInputs(t.rows[i], out[i], DOMAIN out[i])
          /\ SameNumber(t.rows[i]["price"], out[i]["price"])

\* the neighbourhoods of the raw rows of a city (of all raw rows when the
\* table has no city column)
BarriosOf(ciudad) ==
    LET raw == cache.entry.value[1]
    IN  {r["neighbourhood"].v :
           r \in {x \in Range(raw.rows) :
                    /\ "city" \in raw.cols => RowHasCity(x, ciudad)
                    /\ x["neighbourhood"].k = "str"}}

\* C14: every interaction recomputes from the cached raw tables.  The city
\* step goes on exactly when a raw row has the selected city; the
\* neighbourhoods offered are those of the raw rows of that city; the table
\* handed to the views is the raw rows the run's own city and neighbourhood
\* selection asks for, whatever earlier interactions selected and however
\* they ended; and the run stops on the filter exactly when no raw row
\* matches, so a matching selection after a NoMatchingData run is rendered.
C14_RecomputedFromRaw ==
    [][\A s \in Sessions :
         /\ (pc[s] = "city" /\ "city" \in df[s].cols /\ pc'[s] \in {"barrios", "stopped"}) =>
               (pc'[s] = "barrios" <=>
                  \E r \in Range(cache.entry.value[1].rows) :
                      RowHasCity(r, ciudad_seleccionada'[s]))
         /\ (pc[s] \in {"city", "barrios"} /\ pc'[s] \in {"views", "stopped"}
               /\ "selected_barrios" \in assigned'[s]) =>
               \A out \in {RowsFor(ciudad_seleccionada'[s], selected_barrios'[s])} :
                  /\ Range(barrios'[s]) = BarriosOf(ciudad_seleccionada'[s])
                  /\ pc'[s] = "views" => (ShowsRows(df'[s], out) /\ out # <<>>)
                  /\ pc'[s] = "stopped" => out = <<>>
                  /\ out # <<>> => pc'[s] = "views"
      ]_vars

\* a run that shows both Valencia rows right after a run that stopped on a
\* city without rows
C14_Witness ==
    \E s \in Sessions :
        /\ page[s] = PageOf(NoneT, Malaga, {})
        /\ pc[s] = "export" /\ Wrote(s, "tabs")
        /\ ciudad_seleccionada[s] = Valencia
        /\ Len(df[s].rows) = 2

\* C15: with the default neighbourhood selection, every neighbourhood of the
\* universe, the neighbourhood narrowing keeps every city-narrowed row (every
\* row when there is no city column), rows with a missing neighbourhood
\* included, and the run goes on to the views.
C15_DefaultSelectionKeepsAll ==
    [][\A s \in Sessions :
         (/\ pc[s] \in {"city", "barrios"}
          /\ "selected_barrios" \in assigned'[s]
          /\ selected_barrios'[s] = Range(barrios'[s])) =>
            \A before \in {IF pc[s] = "barrios" THEN df_ciudad[s].rows ELSE df[s].rows} :
               /\ before = IF pc[s] = "barrios" THEN df_ciudad'[s].rows ELSE df'[s].rows
               /\ before # <<>> => (pc'[s] = "views" /\ df'[s].rows = before)
      ]_vars

====
